---------------------------- MODULE Spec2Model ----------------------------
(***************************************************************************)
(* Real-time synchronisation subsystem of the data-logger example:         *)
(*   - the WebSocket proxy of the web server (wss.on('connection'),        *)
(*     setupConnection and the handlers it registers), one record per      *)
(*     accepted browser connection in the variable bridge;                 *)
(*   - the browser-side connection controller of public/app.js             *)
(*     (connectWebSocket, its transport callbacks, the pageshow handler),  *)
(*     in the variable page.                                               *)
(* Handlers are pure operators from a state record to the state record     *)
(* after the handler returned, so that a handler calling another function  *)
(* is operator composition, in the order of the statements of the code.    *)
(***************************************************************************)
EXTENDS Integers, Sequences, FiniteSets

VARIABLES bridge, page

vars == <<bridge, page>>

(***************************************************************************)
(* Bounds of the model.                                                    *)
(***************************************************************************)
\* Messages received per direction in one bridge session.
MaxMsgs == 2
\* Transports (new WebSocket) one page may create before the model stops it.
MaxTransports == 3
\* Frames two concurrent proxy sessions receive, all together.
MaxPairMsgs == 1
\* Frames one page receives on its transports.
MaxRelayed == 2
\* Transports a page that receives frames creates after its first one.
MaxReconnects == 1

(***************************************************************************)
(* Payloads.  A frame reaches a 'message' handler of the ws library as a   *)
(* Buffer: a sequence of bytes.  97 is the letter a, 255 is a byte that is *)
(* no valid UTF-8.                                                         *)
(***************************************************************************)
Buffers == {<<97>>, <<255>>}

\* data.toString(): UTF-8 decoding; an invalid byte decodes to U+FFFD.
ToString(data) == [i \in DOMAIN data |-> IF data[i] < 128 THEN data[i] ELSE 65533]

(***************************************************************************)
(* The proxy.  readyState of a ws WebSocket:                               *)
(*   NONE (no object yet), CONNECTING, OPEN, CLOSING, CLOSED.              *)
(***************************************************************************)
\* The session before wss emits 'connection' for it.
NoSession ==
  [ phase |-> "none",            \* none | delay | setup | skipped
    isSafari |-> FALSE,
    clientWs |-> "NONE",
    reconcilerWs |-> "NONE",
    reconcilerAborted |-> FALSE, \* close() during CONNECTING: 'error' queued
    reconcilerOpened |-> FALSE,  \* 'open' was emitted
    pingInterval |-> "none",     \* none | active | cleared
    lastPing |-> {},             \* endpoints pinged by the last timer firing
    upstreamOpens |-> 0,         \* new WebSocket(reconcilerUrl) calls
    clearIntervalCalls |-> 0,
    clientCloseCalls |-> 0,      \* clientWs.close() calls
    reconcilerCloseCalls |-> 0,  \* reconcilerWs.close() calls
    handled |-> <<>>,            \* close/error handlers run, in order
    clientIn |-> <<>>,           \* frames received from the browser
    reconcilerOut |-> <<>>,      \* reconcilerWs.send(data)
    reconcilerIn |-> <<>>,       \* frames received from the reconciler
    clientOut |-> <<>> ]         \* clientWs.send(message)

\* clearInterval(pingInterval)
ClearInterval(b) ==
  [b EXCEPT !.clearIntervalCalls = @ + 1,
            !.pingInterval = IF @ = "active" THEN "cleared" ELSE @]

\* reconcilerWs.close(): nothing when closing or closed; during CONNECTING the
\* handshake is aborted, which emits 'error' and then 'close'.
ReconcilerWsClose(b) ==
  [b EXCEPT !.reconcilerCloseCalls = @ + 1,
            !.reconcilerAborted = @ \/ b.reconcilerWs = "CONNECTING",
            !.reconcilerWs = IF @ \in {"CONNECTING", "OPEN"} THEN "CLOSING" ELSE @]

\* clientWs.close(): nothing when closing or closed.
ClientWsClose(b) ==
  [b EXCEPT !.clientCloseCalls = @ + 1,
            !.clientWs = IF @ = "OPEN" THEN "CLOSING" ELSE @]

\* setupConnection without its readyState check.
SetupConnection_Unchecked(b) ==
  [b EXCEPT !.phase = "setup",
            !.reconcilerWs = "CONNECTING",
            !.upstreamOpens = @ + 1,
            !.pingInterval = "active"]

\* setupConnection
SetupConnection(b) ==
  IF b.clientWs # "OPEN"
  THEN [b EXCEPT !.phase = "skipped"]
  ELSE [b EXCEPT !.phase = "setup",
                 !.reconcilerWs = "CONNECTING",
                 !.upstreamOpens = @ + 1,
                 !.pingInterval = "active"]

\* wss.on('connection'): the Safari delay, or setupConnection at once.
OnConnection(b, safari) ==
  LET c == [b EXCEPT !.clientWs = "OPEN", !.isSafari = safari]
  IN  IF safari THEN [c EXCEPT !.phase = "delay"] ELSE SetupConnection(c)

\* The setInterval callback.
OnPingInterval(b) ==
  [b EXCEPT !.lastPing =
     (IF b.reconcilerWs = "OPEN" THEN {"reconciler"} ELSE {})
     \cup (IF b.clientWs = "OPEN" THEN {"client"} ELSE {})]

\* reconcilerWs.on('message') sending the Buffer as it came.
OnReconcilerMessage_Raw(b, data) ==
  IF b.clientWs = "OPEN"
  THEN [b EXCEPT !.clientOut = Append(@, data)]
  ELSE b

\* reconcilerWs.on('message')
OnReconcilerMessage(b, data) ==
  LET message == ToString(data)
  IN  IF b.clientWs = "OPEN"
      THEN [b EXCEPT !.clientOut = Append(@, message)]
      ELSE b

\* clientWs.on('message') forwarding while the upstream is closing too.
OnClientMessage_Closing(b, data) ==
  IF b.reconcilerWs \in {"OPEN", "CLOSING"}
  THEN [b EXCEPT !.reconcilerOut = Append(@, data)]
  ELSE b

\* clientWs.on('message')
OnClientMessage(b, data) ==
  IF b.reconcilerWs = "OPEN"
  THEN [b EXCEPT !.reconcilerOut = Append(@, data)]
  ELSE b

\* clientWs.on('close') that leaves the upstream connection alone.
OnClientClose_NoClose(b) ==
  ClearInterval([b EXCEPT !.handled = Append(@, "clientClose")])

\* clientWs.on('close')
OnClientClose(b) ==
  ReconcilerWsClose(ClearInterval([b EXCEPT !.handled = Append(@, "clientClose")]))

\* reconcilerWs.on('close') that leaves the timer running.
OnReconcilerClose_NoClear(b) ==
  ClientWsClose([b EXCEPT !.handled = Append(@, "reconcilerClose")])

\* reconcilerWs.on('close') that leaves the browser's connection alone.
OnReconcilerClose_NoClose(b) ==
  ClearInterval([b EXCEPT !.handled = Append(@, "reconcilerClose")])

\* reconcilerWs.on('close')
OnReconcilerClose(b) ==
  ClientWsClose(ClearInterval([b EXCEPT !.handled = Append(@, "reconcilerClose")]))

\* clientWs.on('error') that only logs.
OnClientError_LogOnly(b) ==
  [b EXCEPT !.handled = Append(@, "clientError")]

\* clientWs.on('error')
OnClientError(b) ==
  ReconcilerWsClose([b EXCEPT !.handled = Append(@, "clientError")])

\* reconcilerWs.on('error') that only logs.
OnReconcilerError_LogOnly(b) ==
  [b EXCEPT !.handled = Append(@, "reconcilerError")]

\* reconcilerWs.on('error') that connects to the reconciler again.
OnReconcilerError_Reopen(b) ==
  [b EXCEPT !.handled = Append(@, "reconcilerError"),
            !.reconcilerWs = "CONNECTING",
            !.upstreamOpens = @ + 1]

\* reconcilerWs.on('error')
OnReconcilerError(b) ==
  ClientWsClose([b EXCEPT !.handled = Append(@, "reconcilerError")])

\* The handlers exist once setupConnection ran past its readyState check.
Registered(b) == b.phase = "setup"

Sessions == DOMAIN bridge

(***************************************************************************)
(* Actions of the proxy: one per event the ws library or a timer delivers. *)
(***************************************************************************)
\* A browser connects.
Accept(s) ==
  /\ bridge[s].phase = "none"
  /\ \E safari \in BOOLEAN :
       bridge' = [bridge EXCEPT ![s] = OnConnection(@, safari)]
  /\ UNCHANGED page

\* setTimeout(setupConnection, 200) fires.
SetupDelayFires(s) ==
  /\ bridge[s].phase = "delay"
  /\ bridge' = [bridge EXCEPT ![s] = SetupConnection(@)]
  /\ UNCHANGED page

\* The keepalive timer fires.
PingIntervalFires(s) ==
  /\ bridge[s].pingInterval = "active"
  /\ bridge' = [bridge EXCEPT ![s] = OnPingInterval(@)]
  /\ UNCHANGED page

\* The upstream handshake completes; the 'open' handler only logs.
ReconcilerOpen(s) ==
  /\ bridge[s].reconcilerWs = "CONNECTING"
  /\ bridge' = [bridge EXCEPT ![s].reconcilerWs = "OPEN",
                              ![s].reconcilerOpened = TRUE]
  /\ UNCHANGED page

\* A frame of the browser arrives; without a listener (during the Safari
\* delay, after a skipped setup) the event is emitted to nobody.
ClientMessage(s) ==
  /\ bridge[s].clientWs \in {"OPEN", "CLOSING"}
  /\ Len(bridge[s].clientIn) < MaxMsgs
  /\ \E data \in Buffers :
       LET b == [bridge[s] EXCEPT !.clientIn = Append(@, data)]
       IN  bridge' = [bridge EXCEPT ![s] =
                        IF Registered(b) THEN OnClientMessage(b, data) ELSE b]
  /\ UNCHANGED page

\* A frame of the reconciler arrives.
ReconcilerMessage(s) ==
  /\ bridge[s].reconcilerWs \in {"OPEN", "CLOSING"}
  /\ bridge[s].reconcilerOpened
  /\ Len(bridge[s].reconcilerIn) < MaxMsgs
  /\ \E data \in Buffers :
       bridge' = [bridge EXCEPT ![s] =
                    OnReconcilerMessage([@ EXCEPT !.reconcilerIn = Append(@, data)], data)]
  /\ UNCHANGED page

\* The browser starts the closing handshake: readyState CLOSING, no event yet.
ClientClosing(s) ==
  /\ bridge[s].clientWs = "OPEN"
  /\ bridge' = [bridge EXCEPT ![s].clientWs = "CLOSING"]
  /\ UNCHANGED page

\* The reconciler starts the closing handshake.
ReconcilerClosing(s) ==
  /\ bridge[s].reconcilerWs = "OPEN"
  /\ bridge' = [bridge EXCEPT ![s].reconcilerWs = "CLOSING"]
  /\ UNCHANGED page

\* The browser's socket is gone, with one keepalive timer for all sessions:
\* the close handler clears it for every session.
ClientCloseEvent_SharedTimer(s) ==
  /\ bridge[s].clientWs \in {"OPEN", "CLOSING"}
  /\ LET b == [bridge[s] EXCEPT !.clientWs = "CLOSED"]
     IN  bridge' = [o \in Sessions |->
                      IF o = s
                      THEN IF Registered(b) THEN OnClientClose(b) ELSE b
                      ELSE IF Registered(b) /\ bridge[o].pingInterval = "active"
                      THEN [bridge[o] EXCEPT !.pingInterval = "cleared"]
                      ELSE bridge[o]]
  /\ UNCHANGED page

\* The browser's socket is gone: readyState CLOSED, then 'close' is emitted.
ClientCloseEvent(s) ==
  /\ bridge[s].clientWs \in {"OPEN", "CLOSING"}
  /\ LET b == [bridge[s] EXCEPT !.clientWs = "CLOSED"]
     IN  bridge' = [bridge EXCEPT ![s] =
                      IF Registered(b) THEN OnClientClose(b) ELSE b]
  /\ UNCHANGED page

\* The upstream socket is gone.  A failed or aborted handshake emits 'error'
\* first, so 'close' never comes straight from CONNECTING.
ReconcilerCloseEvent(s) ==
  /\ bridge[s].reconcilerWs \in {"OPEN", "CLOSING"}
  /\ ~bridge[s].reconcilerAborted
  /\ bridge' = [bridge EXCEPT ![s] =
                  OnReconcilerClose([@ EXCEPT !.reconcilerWs = "CLOSED"])]
  /\ UNCHANGED page

\* A protocol error on the browser's connection: readyState CLOSING, 'error'
\* emitted, 'close' follows.  (Before the handlers are registered an 'error'
\* has no listener and ends the server process; that is not modelled.)
ClientErrorEvent(s) ==
  /\ bridge[s].clientWs = "OPEN"
  /\ Registered(bridge[s])
  /\ bridge' = [bridge EXCEPT ![s] = OnClientError([@ EXCEPT !.clientWs = "CLOSING"])]
  /\ UNCHANGED page

\* 'error' on the upstream link: the handshake failed or was aborted by
\* close() (CONNECTING), or a protocol error (OPEN); 'close' follows.
ReconcilerErrorEvent(s) ==
  /\ \/ bridge[s].reconcilerWs \in {"CONNECTING", "OPEN"}
     \/ bridge[s].reconcilerAborted
  /\ bridge' = [bridge EXCEPT ![s] =
                  OnReconcilerError([@ EXCEPT !.reconcilerWs = "CLOSING",
                                              !.reconcilerAborted = FALSE])]
  /\ UNCHANGED page

BridgeNext ==
  \/ \E s \in Sessions : Accept(s)
  \/ \E s \in Sessions : SetupDelayFires(s)
  \/ \E s \in Sessions : PingIntervalFires(s)
  \/ \E s \in Sessions : ReconcilerOpen(s)
  \/ \E s \in Sessions : ClientMessage(s)
  \/ \E s \in Sessions : ReconcilerMessage(s)
  \/ \E s \in Sessions : ClientClosing(s)
  \/ \E s \in Sessions : ReconcilerClosing(s)
  \/ \E s \in Sessions : ClientCloseEvent(s)
  \/ \E s \in Sessions : ReconcilerCloseEvent(s)
  \/ \E s \in Sessions : ClientErrorEvent(s)
  \/ \E s \in Sessions : ReconcilerErrorEvent(s)

(***************************************************************************)
(* The page (public/app.js).  A transport is a browser WebSocket, named by *)
(* its index in sockets, which holds its readyState; ws = 0 is ws = null.  *)
(* timers holds the pending setTimeout timers in the order they were set:  *)
(* the connect-timeout watchdog of a transport (1.5 s) and the retry of    *)
(* connectWebSocket (2 s).                                                 *)
(***************************************************************************)
\* activityLog keeps at most this many entries.
LogCapacity == 50

WsUrls == {"valid", "invalid", "missing"}

(***************************************************************************)
(* Device state.  A spec carries its appVersion; a status is absent (null  *)
(* or undefined: the device never reported) or carries its appVersion.     *)
(* The other fields of spec and status are only rendered.                  *)
(***************************************************************************)
Versions == {"1.0", "2.0"}
Devices == {"data-logger-1", "data-logger-2"}

Spec(v) == [appVersion |-> v]
Status(v) == [present |-> TRUE, appVersion |-> v]
NoStatus == [present |-> FALSE, appVersion |-> "undefined"]

Specs == {Spec(v) : v \in Versions}
Statuses == {NoStatus} \cup {Status(v) : v \in Versions}

\* currentDevice = null, and currentDevice = { spec, status }
NullDevice == [null |-> TRUE, spec |-> Spec("undefined"), status |-> NoStatus]
Device(spec, status) == [null |-> FALSE, spec |-> spec, status |-> status]

\* What the REST snapshot of loadDevice holds: no blueprint (or the request
\* failed), or the spec and status of the first blueprint.
Snapshots == {NullDevice} \cup {Device(s, st) : s \in Specs, st \in Statuses}

(***************************************************************************)
(* event.data of a relayed frame, by what JSON.parse makes of it:          *)
(*   garbage  text JSON.parse throws on;                                   *)
(*   init     has: message.devices holds 'data-logger-1', with spec/status;*)
(*   update   device, spec, status;                                        *)
(*   other    any other type.                                              *)
(***************************************************************************)
Frame(kind, device, has, spec, status) ==
  [kind |-> kind, device |-> device, has |-> has, spec |-> spec, status |-> status]

InitFrames ==
  {Frame("init", "", FALSE, Spec("undefined"), NoStatus)}
  \cup {Frame("init", "", TRUE, s, st) : s \in Specs, st \in Statuses}
UpdateFrames ==
  {Frame("update", d, FALSE, s, st) : d \in Devices, s \in Specs, st \in Statuses}
OtherFrames ==
  {Frame("other", "", FALSE, Spec("undefined"), NoStatus),
   Frame("garbage", "", FALSE, Spec("undefined"), NoStatus)}
Frames == InitFrames \cup UpdateFrames \cup OtherFrames

\* The page before its load handler has run.
NewPage(safari) ==
  [ loaded |-> FALSE,
    navigation |-> "navigate", \* how the document came about: navigate, reload
    isSafari |-> safari,
    wsUrl |-> "missing",       \* config.reconcilerWsUrl: config = {} at first
    ws |-> 0,
    wsConnecting |-> FALSE,
    sockets |-> <<>>,
    timers |-> <<>>,
    connected |-> FALSE,       \* the indicator updateConnectionStatus sets
    currentDevice |-> NullDevice,
    syncArrow |-> "unknown",   \* className of #sync-arrow: unknown is none
    relayed |-> <<>>,          \* frames delivered to ws.onmessage, in order
    activityLog |-> <<>> ]     \* entries without their clock time

\* logActivity that drops the newest entry past capacity.
LogActivity_DropHead(p, message, type) ==
  LET log == <<[message |-> message, type |-> type]>> \o p.activityLog
  IN  [p EXCEPT !.activityLog =
         IF Len(log) > LogCapacity THEN SubSeq(log, 2, Len(log)) ELSE log]

\* logActivity that puts the new entry at the tail.
LogActivity_Push(p, message, type) ==
  LET log == Append(p.activityLog, [message |-> message, type |-> type])
  IN  [p EXCEPT !.activityLog =
         IF Len(log) > LogCapacity THEN SubSeq(log, 2, Len(log)) ELSE log]

\* logActivity: the new entry at the head, the oldest dropped past capacity.
\* A message is the list of the parts of its template string.
LogActivity(p, message, type) ==
  LET log == <<[message |-> message, type |-> type]>> \o p.activityLog
  IN  [p EXCEPT !.activityLog =
         IF Len(log) > LogCapacity THEN SubSeq(log, 1, Len(log) - 1) ELSE log]

\* updateConnectionStatus
UpdateConnectionStatus(p, c) == [p EXCEPT !.connected = c]

Timeout(t) == [kind |-> "timeout", of |-> t]
Retry == [kind |-> "retry", of |-> 0]

\* setTimeout
SetTimeout(p, timer) == [p EXCEPT !.timers = Append(@, timer)]

WithoutTimer(timers, k) ==
  [i \in 1..(Len(timers) - 1) |-> IF i < k THEN timers[i] ELSE timers[i + 1]]

\* clearTimeout(timeoutId) of transport t: nothing when it fired or was cleared.
ClearTimeout(p, t) ==
  IF \E k \in DOMAIN p.timers : p.timers[k] = Timeout(t)
  THEN [p EXCEPT !.timers =
          WithoutTimer(@, CHOOSE k \in DOMAIN p.timers : p.timers[k] = Timeout(t))]
  ELSE p

\* ws.close() of a browser WebSocket.
SocketClose(p, t) ==
  [p EXCEPT !.sockets[t] = IF @ \in {"CONNECTING", "OPEN"} THEN "CLOSING" ELSE @]

\* The guard of connectWebSocket.
ConnectRefused(p) ==
  p.wsConnecting \/ (p.ws # 0 /\ p.sockets[p.ws] = "OPEN")

\* connectWebSocket; the constructor throws on a URL it cannot take.
ConnectWebSocket(p) ==
  IF ConnectRefused(p) THEN p
  ELSE IF p.wsUrl = "missing" THEN p
  ELSE IF p.wsUrl = "invalid" THEN [p EXCEPT !.wsConnecting = FALSE]
  ELSE LET t == Len(p.sockets) + 1
       IN  SetTimeout([p EXCEPT !.wsConnecting = TRUE,
                                !.sockets = Append(@, "CONNECTING"),
                                !.ws = t],
                      Timeout(t))

\* A sync indicator that compares the versions only.
RenderStateComparison_VersionsOnly(p, spec, status) ==
  [p EXCEPT !.syncArrow =
     IF spec.appVersion = status.appVersion THEN "synced" ELSE "pending"]

\* The sync indicator of renderStateComparison.
RenderStateComparison(p, spec, status) ==
  LET isSynced == status.present /\ spec.appVersion = status.appVersion
  IN  [p EXCEPT !.syncArrow =
         IF ~status.present THEN "unknown"
         ELSE IF isSynced THEN "synced"
         ELSE "pending"]

\* A version string is truthy unless it is undefined (or empty).
Truthy(v) == v \notin {"undefined", ""}

\* updateDevice that announces a deployment whenever a pair was held before
\* and the new one is in sync.
UpdateDevice_DeployedWhenSynced(p, spec, status) ==
  LET held == ~p.currentDevice.null
      isSynced == status.present /\ spec.appVersion = status.appVersion
      p1 == [p EXCEPT !.currentDevice = Device(spec, status)]
      p2 == IF isSynced /\ held
            THEN LogActivity(p1, <<"Deployed", spec.appVersion>>, "success")
            ELSE p1
  IN  RenderStateComparison(p2, spec, status)

\* updateDevice that notes a desired version whenever it is not the one held
\* before, also when nothing was held.
UpdateDevice_NotesFirst(p, spec, status) ==
  LET oldVersion == IF p.currentDevice.null THEN "undefined"
                    ELSE p.currentDevice.spec.appVersion
      newVersion == spec.appVersion
      actualVersion == status.appVersion
      isSynced == status.present /\ newVersion = actualVersion
      p1 == [p EXCEPT !.currentDevice = Device(spec, status)]
      p2 == IF oldVersion # newVersion
            THEN LogActivity(p1, <<"Desired version", oldVersion, newVersion>>, "info")
            ELSE p1
      p3 == IF isSynced /\ Truthy(oldVersion) /\ oldVersion # newVersion
            THEN LogActivity(p2, <<"Deployed", newVersion>>, "success")
            ELSE IF ~isSynced /\ Truthy(actualVersion) /\ newVersion # actualVersion
            THEN LogActivity(p2, <<"Reconciling", actualVersion, newVersion>>, "reconciling")
            ELSE p2
  IN  RenderStateComparison(p3, spec, status)

\* updateDevice that logs a reconciliation whenever the pair is not in sync,
\* also when the actual version is not known.
UpdateDevice_ReconcilingUnknown(p, spec, status) ==
  LET oldVersion == IF p.currentDevice.null THEN "undefined"
                    ELSE p.currentDevice.spec.appVersion
      newVersion == spec.appVersion
      actualVersion == status.appVersion
      isSynced == status.present /\ newVersion = actualVersion
      p1 == [p EXCEPT !.currentDevice = Device(spec, status)]
      p2 == IF Truthy(oldVersion) /\ Truthy(newVersion) /\ oldVersion # newVersion
            THEN LogActivity(p1, <<"Desired version", oldVersion, newVersion>>, "info")
            ELSE p1
      p3 == IF isSynced /\ Truthy(oldVersion) /\ oldVersion # newVersion
            THEN LogActivity(p2, <<"Deployed", newVersion>>, "success")
            ELSE IF ~isSynced
            THEN LogActivity(p2, <<"Reconciling", actualVersion, newVersion>>, "reconciling")
            ELSE p2
  IN  RenderStateComparison(p3, spec, status)

\* updateDevice
UpdateDevice(p, spec, status) ==
  LET oldVersion == IF p.currentDevice.null THEN "undefined"
                    ELSE p.currentDevice.spec.appVersion
      newVersion == spec.appVersion
      actualVersion == status.appVersion
      isSynced == status.present /\ newVersion = actualVersion
      p1 == [p EXCEPT !.currentDevice = Device(spec, status)]
      p2 == IF Truthy(oldVersion) /\ Truthy(newVersion) /\ oldVersion # newVersion
            THEN LogActivity(p1, <<"Desired version", oldVersion, newVersion>>, "info")
            ELSE p1
      p3 == IF isSynced /\ Truthy(oldVersion) /\ oldVersion # newVersion
            THEN LogActivity(p2, <<"Deployed", newVersion>>, "success")
            ELSE IF ~isSynced /\ Truthy(actualVersion) /\ newVersion # actualVersion
            THEN LogActivity(p2, <<"Reconciling", actualVersion, newVersion>>, "reconciling")
            ELSE p2
  IN  RenderStateComparison(p3, spec, status)

\* loadDevice: the first blueprint of the snapshot, or renderDefaultState,
\* which renders a default spec and holds nothing.
LoadDevice(p, snapshot) ==
  IF snapshot.null THEN p ELSE UpdateDevice(p, snapshot.spec, snapshot.status)

\* ws.onmessage that forgets the pair it holds when a frame cannot be decoded.
OnMessage_ResetOnError(p, data) ==
  IF data.kind = "garbage"
  THEN [LogActivity(p, <<"Error">>, "error") EXCEPT !.currentDevice = NullDevice]
  ELSE IF data.kind = "init"
  THEN IF data.has
       THEN UpdateDevice(LogActivity(p, <<"Connected - received device state">>, "info"),
                         data.spec, data.status)
       ELSE p
  ELSE IF data.kind = "update"
  THEN UpdateDevice(LogActivity(p, <<"State updated", data.device>>, "success"),
                    data.spec, data.status)
  ELSE p

\* ws.onmessage
OnMessage(p, data) ==
  IF data.kind = "garbage"
  THEN LogActivity(p, <<"Error">>, "error")
  ELSE IF data.kind = "init"
  THEN IF data.has
       THEN UpdateDevice(LogActivity(p, <<"Connected - received device state">>, "info"),
                         data.spec, data.status)
       ELSE p
  ELSE IF data.kind = "update"
  THEN UpdateDevice(LogActivity(p, <<"State updated", data.device>>, "success"),
                    data.spec, data.status)
  ELSE p

\* ws.onopen that leaves the watchdog running.
OnOpen_NoClear(p, t) ==
  LogActivity(
    UpdateConnectionStatus([p EXCEPT !.wsConnecting = FALSE], TRUE),
    <<"Connected to reconciler">>, "success")

\* ws.onopen of transport t
OnOpen(p, t) ==
  LogActivity(
    UpdateConnectionStatus([ClearTimeout(p, t) EXCEPT !.wsConnecting = FALSE], TRUE),
    <<"Connected to reconciler">>, "success")

\* ws.onclose that schedules no retry.
OnClose_NoRetry(p, t) ==
  LogActivity(
    UpdateConnectionStatus([ClearTimeout(p, t) EXCEPT !.wsConnecting = FALSE], FALSE),
    <<"Disconnected from reconciler">>, "error")

\* ws.onclose of transport t
OnClose(p, t) ==
  SetTimeout(
    LogActivity(
      UpdateConnectionStatus([ClearTimeout(p, t) EXCEPT !.wsConnecting = FALSE], FALSE),
      <<"Disconnected from reconciler">>, "error"),
    Retry)

\* ws.onerror of transport t
OnError(p, t) == [ClearTimeout(p, t) EXCEPT !.wsConnecting = FALSE]

\* location.reload(): the document, its timers and its sockets are gone.
Reload(p) == [NewPage(p.isSafari) EXCEPT !.navigation = "reload"]

\* A watchdog callback that gives the attempt up in every browser: the guard
\* released, the transport closed, a retry set.
OnTimeout_Abandon(p) ==
  IF p.ws = 0 THEN p
  ELSE IF p.sockets[p.ws] # "OPEN"
  THEN SetTimeout([SocketClose(p, p.ws) EXCEPT !.wsConnecting = FALSE], Retry)
  ELSE p

\* A watchdog callback that reloads the page in every browser.
OnTimeout_ReloadAlways(p) ==
  IF p.ws = 0 THEN p
  ELSE IF p.sockets[p.ws] # "OPEN" THEN Reload(p)
  ELSE p

\* The watchdog callback.  It reads the variable ws, not the transport it
\* was set for; with ws = null the read throws and the callback ends.
OnTimeout(p) ==
  IF p.ws = 0 THEN p
  ELSE IF p.sockets[p.ws] # "OPEN" /\ p.isSafari THEN Reload(p)
  ELSE p

\* A pageshow handler that leaves the connecting guard as it is.
OnPageShow_KeepFlag(p, persisted) ==
  IF persisted
  THEN ConnectWebSocket(
         [(IF p.ws # 0 THEN SocketClose(p, p.ws) ELSE p) EXCEPT !.ws = 0])
  ELSE p

\* A pageshow handler that fetches the device again on a restore.
OnPageShow_LoadsDevice(p, persisted) ==
  IF persisted
  THEN LoadDevice(ConnectWebSocket(
         [(IF p.ws # 0 THEN SocketClose(p, p.ws) ELSE p)
            EXCEPT !.ws = 0, !.wsConnecting = FALSE]), Device(Spec("1.0"), NoStatus))
  ELSE p

\* The pageshow handler.
OnPageShow(p, persisted) ==
  IF persisted
  THEN ConnectWebSocket(
         [(IF p.ws # 0 THEN SocketClose(p, p.ws) ELSE p)
            EXCEPT !.ws = 0, !.wsConnecting = FALSE])
  ELSE p

\* The load handler: loadConfig stores what /api/config returned, loadDevice
\* applies the snapshot, connectWebSocket.
OnLoad(p, url, snapshot) ==
  ConnectWebSocket(LoadDevice([p EXCEPT !.loaded = TRUE, !.wsUrl = url], snapshot))

\* The model stops a page that would create one transport too many.
WithinBound(p) == Len(p.sockets) <= MaxTransports

(***************************************************************************)
(* Actions of the page: one per event the browser delivers.                *)
(***************************************************************************)
Load ==
  /\ ~page.loaded
  /\ \E url \in WsUrls, snapshot \in Snapshots : page' = OnLoad(page, url, snapshot)
  /\ UNCHANGED bridge

\* The transport opens.
WsOpen ==
  /\ \E t \in DOMAIN page.sockets :
       /\ page.sockets[t] = "CONNECTING"
       /\ page' = OnOpen([page EXCEPT !.sockets[t] = "OPEN"], t)
  /\ UNCHANGED bridge

\* The server starts the closing handshake: readyState CLOSING, no event yet.
WsClosing ==
  /\ \E t \in DOMAIN page.sockets :
       /\ page.sockets[t] = "OPEN"
       /\ page' = [page EXCEPT !.sockets[t] = "CLOSING"]
  /\ UNCHANGED bridge

\* The connection is closed: one task sets readyState CLOSED, fires error
\* when the connection failed, and fires close.
WsClosed ==
  /\ \E t \in DOMAIN page.sockets, failed \in BOOLEAN :
       /\ page.sockets[t] \in {"CONNECTING", "OPEN", "CLOSING"}
       /\ LET p == [page EXCEPT !.sockets[t] = "CLOSED"]
          IN  page' = OnClose(IF failed THEN OnError(p, t) ELSE p, t)
  /\ UNCHANGED bridge

\* A watchdog fires: 1.5 s after it was set, so after the watchdogs set
\* before it.
TimeoutFires ==
  /\ \E k \in DOMAIN page.timers :
       /\ page.timers[k].kind = "timeout"
       /\ \A j \in 1..(k - 1) : page.timers[j].kind # "timeout"
       /\ page' = OnTimeout([page EXCEPT !.timers = WithoutTimer(@, k)])
  /\ UNCHANGED bridge

\* A retry fires: 2 s after it was set, so after every timer set before it.
RetryFires ==
  /\ page.timers # <<>>
  /\ page.timers[1] = Retry
  /\ page' = ConnectWebSocket([page EXCEPT !.timers = WithoutTimer(@, 1)])
  /\ WithinBound(page')
  /\ UNCHANGED bridge

\* The page is shown: restored from the back-forward cache, or not.
PageShow ==
  /\ page.loaded
  /\ \E persisted \in BOOLEAN : page' = OnPageShow(page, persisted)
  /\ WithinBound(page')
  /\ UNCHANGED bridge

\* A frame arrives on an open transport.
WsMessage ==
  /\ Len(page.relayed) < MaxRelayed
  /\ \E t \in DOMAIN page.sockets, data \in Frames :
       /\ page.sockets[t] = "OPEN"
       /\ page' = OnMessage([page EXCEPT !.relayed = Append(@, data)], data)
  /\ UNCHANGED bridge

PageNext ==
  \/ Load
  \/ WsOpen
  \/ WsClosing
  \/ WsClosed
  \/ TimeoutFires
  \/ RetryFires
  \/ PageShow

BridgeInit ==
  /\ bridge = [s \in {1} |-> NoSession]
  /\ page = NewPage(FALSE)

PageInit ==
  /\ bridge = <<>>
  /\ \E safari \in BOOLEAN : page = NewPage(safari)

\* One page under every interleaving of its events.
PageSpec == PageInit /\ [][PageNext]_vars

\* The timers of a page fire: a pending watchdog or retry is not postponed
\* for ever.
PageFairSpec ==
  /\ PageSpec
  /\ WF_vars(TimeoutFires)
  /\ WF_vars(RetryFires)

(***************************************************************************)
(* A page that receives frames.  It starts connected: loaded with a valid  *)
(* URL and some snapshot, its transport open, after some number of earlier *)
(* disconnect and reconnect rounds, of which only the log entries are left *)
(* (the transports closed in those rounds are not kept).                   *)
(***************************************************************************)
RECURSIVE Reconnected(_, _)
Reconnected(p, rounds) ==
  IF rounds = 0 THEN p
  ELSE Reconnected(
         LogActivity(LogActivity(p, <<"Disconnected from reconciler">>, "error"),
                     <<"Connected to reconciler">>, "success"),
         rounds - 1)

\* No earlier round, or as many as fill the log to one entry below capacity.
Rounds == {0, (LogCapacity - 2) \div 2}

\* The snapshots the page started from: none, or a device still reconciling.
StartSnapshots == {NullDevice, Device(Spec("2.0"), Status("1.0"))}

\* The page loaded with the snapshot, its transport open, after the rounds.
Connected(snapshot, rounds) ==
  LET loaded == OnLoad(NewPage(FALSE), "valid", snapshot)
  IN  Reconnected(OnOpen([loaded EXCEPT !.sockets[1] = "OPEN"], 1), rounds)

ModelInit ==
  /\ bridge = <<>>
  /\ \E snapshot \in StartSnapshots, rounds \in Rounds :
       page = Connected(snapshot, rounds)

\* The retry of a page that receives frames.
Reconnect ==
  /\ Len(page.sockets) <= MaxReconnects
  /\ RetryFires

ModelNext ==
  \/ WsMessage
  \/ WsOpen
  \/ WsClosed
  \/ Reconnect

\* One connected page under every interleaving of frames, closes and retries.
ModelSpec == ModelInit /\ [][ModelNext]_vars

\* One connected page, started from any snapshot, that only receives frames.
FramesInit ==
  /\ bridge = <<>>
  /\ \E snapshot \in Snapshots, rounds \in Rounds :
       page = Connected(snapshot, rounds)

FramesNext == WsMessage

FramesSpec == FramesInit /\ [][FramesNext]_vars

(***************************************************************************)
(* A document from its load event on: the snapshot, then the transports,   *)
(* their frames, the retries and the page restores.  The snapshot is one   *)
(* of StartSnapshots and the frames are StartFrames: an init, a synced     *)
(* update and text that does not parse; Brief stops the run after          *)
(* MaxReconnects transports past the first.                                *)
(***************************************************************************)
StartFrames ==
  {Frame("init", "", TRUE, Spec("1.0"), Status("1.0")),
   Frame("update", "data-logger-1", FALSE, Spec("2.0"), Status("2.0")),
   Frame("garbage", "", FALSE, Spec("undefined"), NoStatus)}

Brief ==
  /\ Len(page'.sockets) <= MaxReconnects + 1
  /\ \A i \in DOMAIN page'.relayed : page'.relayed[i] \in StartFrames

DocumentLoad ==
  /\ ~page.loaded
  /\ \E url \in WsUrls, snapshot \in StartSnapshots : page' = OnLoad(page, url, snapshot)
  /\ UNCHANGED bridge

DocumentNext ==
  \/ DocumentLoad
  \/ WsOpen
  \/ WsMessage /\ Brief
  \/ WsClosed
  \/ TimeoutFires
  \/ RetryFires /\ Brief
  \/ PageShow /\ Brief

DocumentSpec == PageInit /\ [][DocumentNext]_vars

\* One proxy session under every interleaving of its events.
BridgeSpec == BridgeInit /\ [][BridgeNext]_vars

(***************************************************************************)
(* Two proxy sessions at once: two 'connection' events, each with its own  *)
(* closure.  The frames of both sessions together are bounded.             *)
(***************************************************************************)
FramesIn(s) == Len(bridge[s].clientIn) + Len(bridge[s].reconcilerIn)

RECURSIVE FramesUpTo(_)
FramesUpTo(n) == IF n = 0 THEN 0 ELSE FramesIn(n) + FramesUpTo(n - 1)

PairInit ==
  /\ bridge = [s \in {1, 2} |-> NoSession]
  /\ page = NewPage(FALSE)

PairClientMessage(s) ==
  /\ FramesUpTo(Cardinality(Sessions)) < MaxPairMsgs
  /\ ClientMessage(s)

PairReconcilerMessage(s) ==
  /\ FramesUpTo(Cardinality(Sessions)) < MaxPairMsgs
  /\ ReconcilerMessage(s)

PairNext ==
  \/ \E s \in Sessions : Accept(s)
  \/ \E s \in Sessions : SetupDelayFires(s)
  \/ \E s \in Sessions : PingIntervalFires(s)
  \/ \E s \in Sessions : ReconcilerOpen(s)
  \/ \E s \in Sessions : PairClientMessage(s)
  \/ \E s \in Sessions : PairReconcilerMessage(s)
  \/ \E s \in Sessions : ClientClosing(s)
  \/ \E s \in Sessions : ReconcilerClosing(s)
  \/ \E s \in Sessions : ClientCloseEvent(s)
  \/ \E s \in Sessions : ReconcilerCloseEvent(s)
  \/ \E s \in Sessions : ClientErrorEvent(s)
  \/ \E s \in Sessions : ReconcilerErrorEvent(s)

\* Two proxy sessions under every interleaving of their events.
PairSpec == PairInit /\ [][PairNext]_vars

\* The events of the ws library the fairness is about: an endpoint that is
\* closing (close() was called on it, or its peer started the handshake) gets
\* its 'close' event, and an aborted handshake its 'error' event.
ClientCloseFollows(s) == ClientCloseEvent(s) /\ bridge[s].clientWs = "CLOSING"
ReconcilerCloseFollows(s) == ReconcilerCloseEvent(s) /\ bridge[s].reconcilerWs = "CLOSING"
ReconcilerErrorFollows(s) == ReconcilerErrorEvent(s) /\ bridge[s].reconcilerAborted

\* One proxy session in which every close call is followed by the close event.
BridgeFairSpec ==
  /\ BridgeSpec
  /\ WF_vars(ClientCloseFollows(1))
  /\ WF_vars(ReconcilerCloseFollows(1))
  /\ WF_vars(ReconcilerErrorFollows(1))

(***************************************************************************)
(* Properties of the proxy.                                                *)
(***************************************************************************)
Ran(h, b) == \E i \in DOMAIN b.handled : b.handled[i] = h

ClientSide == {"clientClose", "clientError"}
ReconcilerSide == {"reconcilerClose", "reconcilerError"}

TornDown(b) ==
  b.clientWs = "CLOSED" /\ b.reconcilerWs = "CLOSED" /\ b.pingInterval = "cleared"

\* C3: once a close or error event of either endpoint of an established
\* session was handled, or an endpoint is no longer open, the session reaches
\* the state where both endpoints are closed and the timer is cancelled, and
\* stays there (every close call being followed by the close event).
C3_TeardownCompletes ==
  /\ (Registered(bridge[1]) /\ bridge[1].handled # <<>>) ~> TornDown(bridge[1])
  /\ (Registered(bridge[1]) /\ bridge[1].clientWs # "OPEN") ~> TornDown(bridge[1])
  /\ (Registered(bridge[1]) /\ bridge[1].reconcilerWs \in {"CLOSING", "CLOSED"}) ~> TornDown(bridge[1])
  /\ [][TornDown(bridge[1]) => TornDown(bridge'[1])]_vars

\* The upstream connection closed first and the session is torn down.
C3_Witness ==
  /\ bridge[1].handled # <<>>
  /\ bridge[1].handled[1] = "reconcilerClose"
  /\ TornDown(bridge[1])

\* C4: once the browser's close event was handled, the timer is cancelled and
\* close was called on the upstream connection, which is no longer open.
C4_ClientCloseCascades ==
  \A s \in Sessions :
    LET b == bridge[s]
    IN  Ran("clientClose", b) =>
          /\ b.pingInterval = "cleared"
          /\ b.reconcilerCloseCalls >= 1
          /\ b.reconcilerWs \in {"CLOSING", "CLOSED"}

\* The browser's close event was the first event, handled while the upstream
\* connection was open: the upstream connection is closing.
C4_Witness ==
  \E s \in Sessions :
    /\ bridge[s].handled = <<"clientClose">>
    /\ bridge[s].reconcilerOpened
    /\ bridge[s].reconcilerWs = "CLOSING"
    /\ bridge[s].clientWs = "CLOSED"

\* C5: when the setup delay ends with the browser's connection not open, setup
\* opens no upstream connection, starts no timer and registers no handler;
\* and a session without handlers never has any of the three.
C5_PhantomSkipped ==
  /\ [][\A s \in Sessions :
          (bridge[s].phase = "delay" /\ bridge'[s].phase # "delay" /\ bridge[s].clientWs # "OPEN")
            => (/\ ~Registered(bridge'[s])
                /\ bridge'[s].upstreamOpens = 0
                /\ bridge'[s].reconcilerWs = "NONE"
                /\ bridge'[s].pingInterval = "none")]_vars
  /\ [](\A s \in Sessions :
          ~Registered(bridge[s]) =>
            /\ bridge[s].upstreamOpens = 0
            /\ bridge[s].reconcilerWs = "NONE"
            /\ bridge[s].pingInterval = "none"
            /\ bridge[s].handled = <<>>
            /\ bridge[s].reconcilerOut = <<>>)

\* A Safari client closed during the delay, setup was skipped and the close
\* event found no handler.
C5_Witness ==
  \E s \in Sessions :
    /\ bridge[s].isSafari
    /\ bridge[s].phase = "skipped"
    /\ bridge[s].clientWs = "CLOSED"

\* C6: a session opens at most one upstream connection, and an upstream
\* connection that is closing or closed stays so.
C6_OneUpstream ==
  /\ [](\A s \in Sessions : bridge[s].upstreamOpens <= 1)
  /\ [][\A s \in Sessions :
          bridge[s].reconcilerWs \in {"CLOSING", "CLOSED"}
            => bridge'[s].reconcilerWs \in {"CLOSING", "CLOSED"}]_vars

\* The upstream connection failed to connect and is closed.
C6_Witness ==
  \E s \in Sessions :
    /\ bridge[s].handled = <<"reconcilerError", "reconcilerClose">>
    /\ ~bridge[s].reconcilerOpened
    /\ bridge[s].reconcilerWs = "CLOSED"
    /\ bridge[s].upstreamOpens = 1

\* C7: once the error event of an upstream connection that never opened was
\* handled, close was called on the browser's connection, which is no longer
\* open, no second upstream connection was opened, and nothing was ever sent
\* to the browser (keepalive pings are protocol frames the page cannot see).
C7_ConnectFailureClosesClient ==
  \A s \in Sessions :
    LET b == bridge[s]
    IN  (Ran("reconcilerError", b) /\ ~b.reconcilerOpened) =>
          /\ b.clientCloseCalls >= 1
          /\ b.clientWs \in {"CLOSING", "CLOSED"}
          /\ b.upstreamOpens = 1
          /\ b.reconcilerWs \in {"CLOSING", "CLOSED"}
          /\ b.clientOut = <<>>

\* The handshake failed while the browser's connection was open.
C7_Witness ==
  \E s \in Sessions :
    /\ bridge[s].handled = <<"reconcilerError">>
    /\ ~bridge[s].reconcilerOpened
    /\ bridge[s].clientWs = "CLOSING"
    /\ bridge[s].clientCloseCalls = 1

\* C8 as claimed: every frame received from the browser has been sent to the
\* upstream link, unchanged and in order.
C8_AllForwardedUp ==
  \A s \in Sessions : bridge[s].reconcilerOut = bridge[s].clientIn

\* What the handler does instead: a frame of the browser is sent upstream,
\* unchanged and behind the frames sent before it, exactly when it arrives
\* while the handlers are registered and the upstream connection is open.  A
\* frame that arrives during the Safari delay, while the upstream connection
\* is connecting, or once it is closing or closed, is dropped.
C8_ForwardedUpWhileOpen ==
  [][\A s \in Sessions :
       LET b == bridge[s]
           c == bridge'[s]
       IN  IF c.clientIn # b.clientIn
           THEN c.reconcilerOut =
                  IF Registered(b) /\ b.reconcilerWs = "OPEN"
                  THEN Append(b.reconcilerOut, c.clientIn[Len(c.clientIn)])
                  ELSE b.reconcilerOut
           ELSE c.reconcilerOut = b.reconcilerOut]_vars

\* C9 as claimed: every frame received from the reconciler has been sent to
\* the browser, as text and in order.
C9_AllForwardedDown ==
  \A s \in Sessions :
    LET b == bridge[s]
    IN  b.clientOut = [i \in DOMAIN b.reconcilerIn |-> ToString(b.reconcilerIn[i])]

\* C9 amended: a frame of the reconciler is sent to the browser, converted to
\* text and behind the frames sent before it, exactly when it arrives while
\* the browser's connection is open; a frame that arrives once the browser's
\* connection is closing or closed is dropped.  What was sent is therefore the
\* text of a prefix of what was received.
C9_ForwardedDownWhileOpen ==
  /\ [][\A s \in Sessions :
          LET b == bridge[s]
              c == bridge'[s]
          IN  IF c.reconcilerIn # b.reconcilerIn
              THEN c.clientOut =
                     IF b.clientWs = "OPEN"
                     THEN Append(b.clientOut, ToString(c.reconcilerIn[Len(c.reconcilerIn)]))
                     ELSE b.clientOut
              ELSE c.clientOut = b.clientOut]_vars
  /\ [](\A s \in Sessions :
          LET b == bridge[s]
          IN  /\ Len(b.clientOut) <= Len(b.reconcilerIn)
              /\ \A i \in DOMAIN b.clientOut : b.clientOut[i] = ToString(b.reconcilerIn[i]))

\* A binary frame was forwarded as text and the next frame, which arrived
\* after the browser started closing, was dropped.
C9_Witness ==
  \E s \in Sessions :
    /\ Len(bridge[s].reconcilerIn) = 2
    /\ bridge[s].reconcilerIn[1] = <<255>>
    /\ bridge[s].clientOut = <<ToString(<<255>>)>>

(***************************************************************************)
(* Properties of the page.                                                 *)
(***************************************************************************)
\* The transport the variable ws holds is connecting or open.
Live(p) == p.ws # 0 /\ p.sockets[p.ws] \in {"CONNECTING", "OPEN"}

\* C10: a retry timer that calls connectWebSocket while the transport in ws
\* is connecting or open creates no transport, starts no watchdog and leaves
\* ws and wsConnecting as they are.
C10_ConnectRefusedWhileLive ==
  [][(RetryFires /\ Live(page)) =>
       /\ page'.sockets = page.sockets
       /\ page'.ws = page.ws
       /\ page'.wsConnecting = page.wsConnecting
       /\ \A k \in DOMAIN page'.timers : page'.timers[k].kind # "timeout"
            => \E j \in DOMAIN page.timers : page.timers[j] = page'.timers[k]]_vars

\* The retry timers that are pending.
Retries(p) == Cardinality({k \in DOMAIN p.timers : p.timers[k] = Retry})

\* The step is the close event of transport t.
Closes(t) ==
  /\ page.loaded /\ page'.loaded
  /\ t \in DOMAIN page.sockets /\ t \in DOMAIN page'.sockets
  /\ page.sockets[t] # "CLOSED" /\ page'.sockets[t] = "CLOSED"

\* The step creates a transport, which becomes the current one.
Creates ==
  /\ Len(page'.sockets) = Len(page.sockets) + 1
  /\ page'.ws = Len(page'.sockets)
  /\ page'.sockets[page'.ws] = "CONNECTING"

C12_NeverStranded ==
  (page.loaded /\ page.wsUrl # "missing") =>
    \/ \E t \in DOMAIN page.sockets : page.sockets[t] \in {"CONNECTING", "OPEN", "CLOSING"}
    \/ Retries(page) > 0

\* The step is the watchdog of the current transport firing while that
\* transport is still connecting.
WatchdogFiresStalled ==
  /\ TimeoutFires
  /\ page.ws # 0
  /\ page.sockets[page.ws] = "CONNECTING"
  /\ \E k \in DOMAIN page.timers : page.timers[k] = Timeout(page.ws)
  /\ \/ ~page'.loaded
     \/ ~\E k \in DOMAIN page'.timers : page'.timers[k] = Timeout(page.ws)

C20_OneLiveTransport ==
  Cardinality({t \in DOMAIN page.sockets : page.sockets[t] \in {"CONNECTING", "OPEN"}}) <= 1

(***************************************************************************)
(* Properties of the page that receives frames.                            *)
(***************************************************************************)
\* The frame carries a spec and status for device d.
References(data, d) ==
  \/ data.kind = "init" /\ data.has /\ d = "data-logger-1"
  \/ data.kind = "update" /\ data.device = d

\* The place in the frames received of the last one that references d, or 0.
LastFor(d) ==
  LET ks == {k \in DOMAIN page.relayed : References(page.relayed[k], d)}
  IN  IF ks = {} THEN 0 ELSE CHOOSE k \in ks : \A j \in ks : j <= k

\* C13: once a frame has referenced data-logger-1, the device the page is
\* about, the pair held is the spec and status of the last frame that
\* references it; frames that reference another device do not change it.
C13_LastWriteWinsPerDevice ==
  LET k == LastFor("data-logger-1")
  IN  k # 0 => page.currentDevice = Device(page.relayed[k].spec, page.relayed[k].status)

\* The two updates of the scenario: desired 2.0 while the device runs 1.0,
\* then the device reports 2.0.
UpdatePending == Frame("update", "data-logger-1", FALSE, Spec("2.0"), Status("1.0"))
UpdateSynced == Frame("update", "data-logger-1", FALSE, Spec("2.0"), Status("2.0"))

\* The step processes the frame data.
Processes(data) ==
  /\ page'.relayed = Append(page.relayed, data)
  /\ page' = OnMessage([page EXCEPT !.relayed = page'.relayed], data)

\* C14: when the second update of the scenario is processed after the first,
\* the sync indicator is synced and the head of the activity log is the
\* success entry that announces the deployment of 2.0.
C14_ScenarioEndsDeployed ==
  [][(/\ page.relayed # <<>>
      /\ page.relayed[Len(page.relayed)] = UpdatePending
      /\ Processes(UpdateSynced))
     => /\ page'.syncArrow = "synced"
        /\ page'.activityLog[1] = [message |-> <<"Deployed", "2.0">>, type |-> "success"]]_vars

\* C15: while a pair is held, the sync indicator shows unknown exactly when
\* the pair has no status, synced exactly when it has one whose appVersion is
\* the desired appVersion, and pending exactly when it has one whose
\* appVersion differs.
C15_SyncStatusDerived ==
  ~page.currentDevice.null =>
    LET spec == page.currentDevice.spec
        status == page.currentDevice.status
    IN  /\ page.syncArrow = "unknown" <=> ~status.present
        /\ page.syncArrow = "synced" <=>
             (status.present /\ status.appVersion = spec.appVersion)
        /\ page.syncArrow = "pending" <=>
             (status.present /\ status.appVersion # spec.appVersion)

\* A frame took the page from a pair in sync to a pair without status.
C15_Witness ==
  /\ Len(page.relayed) = 2
  /\ page.relayed[1].kind = "init" /\ page.relayed[1].has
  /\ page.relayed[1].status = Status(page.relayed[1].spec.appVersion)
  /\ page.relayed[2].kind = "update" /\ page.relayed[2].status = NoStatus
  /\ page.currentDevice.status = NoStatus
  /\ page.syncArrow = "unknown"

\* The step puts k entries at the head of the activity log: the entries that
\* were there follow in their order, and those past capacity, the oldest,
\* are gone.
Kept(k) ==
  /\ Len(page'.activityLog) =
       (IF Len(page.activityLog) + k > LogCapacity THEN LogCapacity
        ELSE Len(page.activityLog) + k)
  /\ \A i \in (k + 1)..Len(page'.activityLog) :
       page'.activityLog[i] = page.activityLog[i - k]

\* C16: the activity log never holds more than 50 entries; every step puts
\* at most three entries at its head and keeps the older ones in order, the
\* oldest being dropped past 50; a close event puts exactly its entry there.
C16_LogBounded ==
  /\ [](Len(page.activityLog) <= LogCapacity)
  /\ [][\E k \in 0..3 : Kept(k)]_vars
  /\ [][\A t \in DOMAIN page.sockets : Closes(t) =>
           /\ Kept(1)
           /\ page'.activityLog[1] =
                [message |-> <<"Disconnected from reconciler">>, type |-> "error"]]_vars

\* The log is full, its head is the entry of an update, and the entry of the
\* first connect, once the oldest, has been dropped.
C16_Witness ==
  /\ Len(page.activityLog) = LogCapacity
  /\ page.activityLog[1].message[1] = "State updated"
  /\ page.activityLog[LogCapacity].message = <<"Disconnected from reconciler">>

\* The entries ws.onmessage appends when it processes data on page p.
Appended(p, data) ==
  LET log == OnMessage([p EXCEPT !.activityLog = <<>>], data).activityLog
  IN  {log[i] : i \in DOMAIN log}

\* C17: from every reachable page and for every update frame, processing the
\* frame a second time leaves the pair and the sync indicator as the first
\* processing left them and appends only entries the first processing
\* appended too; and a step that processes the update processed just before
\* changes neither the pair nor the sync indicator.
C17_UpdateIdempotent ==
  /\ [](\A data \in UpdateFrames :
          LET once == OnMessage(page, data)
              twice == OnMessage(once, data)
          IN  /\ twice.currentDevice = once.currentDevice
              /\ twice.syncArrow = once.syncArrow
              /\ Appended(once, data) \subseteq Appended(page, data))
  /\ [][\A data \in UpdateFrames :
           (/\ page.relayed # <<>>
            /\ page.relayed[Len(page.relayed)] = data
            /\ Processes(data))
           => /\ page'.currentDevice = page.currentDevice
              /\ page'.syncArrow = page.syncArrow]_vars

\* The same update was processed twice in a row, and both times appended its
\* entries: the log is not deduplicated.
C17_Witness ==
  /\ page.relayed = <<UpdatePending, UpdatePending>>
  /\ Len(page.activityLog) >= 4
  /\ page.activityLog[1].message[1] = "Reconciling"
  /\ page.activityLog[2].message[1] = "State updated"
  /\ page.activityLog[3].message[1] = "Reconciling"
  /\ page.activityLog[4].message[1] = "State updated"

\* C18: a frame that cannot be decoded, or whose type is neither init nor
\* update, changes neither the pair nor the sync indicator, closes no
\* transport and leaves the controller (ws, wsConnecting, timers, connection
\* indicator) as it is; an update that follows it is processed as any update:
\* its pair is held and shown.
C18_BadFrameIgnored ==
  /\ [][\A data \in OtherFrames : Processes(data) =>
           /\ page'.currentDevice = page.currentDevice
           /\ page'.syncArrow = page.syncArrow
           /\ page'.sockets = page.sockets
           /\ page'.ws = page.ws
           /\ page'.wsConnecting = page.wsConnecting
           /\ page'.timers = page.timers
           /\ page'.connected = page.connected]_vars
  /\ [][\A data \in UpdateFrames :
           (/\ page.relayed # <<>>
            /\ page.relayed[Len(page.relayed)] \in OtherFrames
            /\ Processes(data))
           => /\ page'.currentDevice = Device(data.spec, data.status)
              /\ page'.activityLog[1].message[1] \in {"State updated", "Desired version", "Reconciling", "Deployed"}
              /\ page'.sockets = page.sockets]_vars

\* A frame that cannot be decoded was received on the open transport, then
\* an update, whose pair is held.
C18_Witness ==
  /\ Len(page.relayed) = 2
  /\ page.relayed[1].kind = "garbage"
  /\ page.relayed[2] = UpdateSynced
  /\ page.currentDevice = Device(Spec("2.0"), Status("2.0"))
  /\ page.syncArrow = "synced"
  /\ page.ws # 0 /\ page.sockets[page.ws] = "OPEN" /\ page.connected

(***************************************************************************)
(* Properties of the page-restore reset, the watchdog and the indicator.   *)
(***************************************************************************)
\* C21: the pageshow handler of a restored page that holds a transport calls
\* close on it (a connecting or open transport is closing afterwards, a
\* closing or closed one is as it was) and in the same step creates a new
\* transport, which is connecting and becomes the current one, with its
\* watchdog; no retry timer is waited for or used up.
C21_RestoreReconnectsAtOnce ==
  [][(page.loaded /\ page.ws # 0 /\ page' = OnPageShow(page, TRUE)) =>
       /\ page'.sockets[page.ws] =
            (IF page.sockets[page.ws] \in {"CONNECTING", "OPEN"} THEN "CLOSING"
             ELSE page.sockets[page.ws])
       /\ Creates
       /\ page'.wsConnecting
       /\ page'.timers = Append(page.timers, Timeout(page'.ws))]_vars

\* The page was restored while its transport was closed and the retry of
\* that close was still pending: the new transport is there before the retry.
C21_Witness ==
  /\ page.loaded
  /\ page.sockets = <<"CLOSED", "CONNECTING">>
  /\ page.ws = 2
  /\ page.timers = <<Retry, Timeout(2)>>


\* The watchdog of transport t is pending on page p.
Watched(p, t) == \E k \in DOMAIN p.timers : p.timers[k] = Timeout(t)

\* C22: the watchdog of a transport is pending only while no event of that
\* transport has been handled: the step that handles its open or its error
\* and close leaves no watchdog of it, a watchdog appears only for a
\* transport created in that step, and so none is pending for a transport
\* that is open or closed.
C22_WatchdogCancelled ==
  /\ [](\A t \in DOMAIN page.sockets :
          Watched(page, t) => page.sockets[t] \in {"CONNECTING", "CLOSING"})
  /\ [][\A t \in DOMAIN page.sockets :
           (/\ page'.loaded /\ t \in DOMAIN page'.sockets
            /\ page.sockets[t] # page'.sockets[t]
            /\ page'.sockets[t] \in {"OPEN", "CLOSED"})
           => ~Watched(page', t)]_vars
  /\ [][\A t \in 1..MaxTransports :
           (Watched(page', t) /\ ~Watched(page, t))
           => (t = Len(page'.sockets) /\ Len(page.sockets) = t - 1)]_vars

\* Transport 2 opened and its watchdog is gone, while the watchdog of
\* transport 1, closed by the page-restore reset and without an event yet,
\* is still pending.
C22_Witness ==
  /\ page.sockets = <<"CLOSING", "OPEN">>
  /\ page.ws = 2
  /\ page.timers = <<Timeout(1)>>


\* C23: a step reloads the page (the loaded document is replaced by a new
\* one) exactly when it is a watchdog firing on a Safari page whose current
\* transport is not open; on any other page, and when the current transport
\* is open, no step reloads.
C23_ReloadOnlySafariStalled ==
  [][(page.loaded /\ ~page'.loaded) <=>
       (/\ TimeoutFires
        /\ page.isSafari
        /\ page.ws # 0
        /\ page.sockets[page.ws] # "OPEN")]_vars

\* A Safari page that was reloaded by its watchdog, before its load handler.
C23_Witness ==
  /\ page.isSafari
  /\ page.navigation = "reload"
  /\ ~page.loaded


C25_InitReplacesAll ==
  [][\A data \in InitFrames : Processes(data) =>
       page'.currentDevice =
         (IF data.has THEN Device(data.spec, data.status) ELSE NullDevice)]_vars


\* The frames whose processing replaces the pair.
ReplacingFrames == UpdateFrames \cup {data \in InitFrames : data.has}

\* The entries of one kind among those the processing of data appends.
AppendedOf(kind, data) == {e \in Appended(page, data) : e.message[1] = kind}

\* C26: when a frame replaces the pair, an entry noting the change of the
\* desired version, from the one held to the new one, is appended if a pair
\* was held and its desired version differs from the new one; no such entry
\* is appended when no pair was held or the desired version is the same.
C26_DesiredChangeNoted ==
  [][\A data \in ReplacingFrames : Processes(data) =>
       AppendedOf("Desired version", data) =
         (IF /\ ~page.currentDevice.null
             /\ page.currentDevice.spec.appVersion # data.spec.appVersion
          THEN {[message |-> <<"Desired version",
                               page.currentDevice.spec.appVersion,
                               data.spec.appVersion>>,
                 type |-> "info"]}
          ELSE {})]_vars

\* An update changed the desired version from 1.0 to 2.0 and the entry that
\* notes it is in the log.
C26_Witness ==
  /\ page.relayed # <<>>
  /\ page.relayed[Len(page.relayed)].kind = "update"
  /\ page.currentDevice.spec = Spec("2.0")
  /\ \E i \in 1..3 :
       /\ i <= Len(page.activityLog)
       /\ page.activityLog[i] =
            [message |-> <<"Desired version", "1.0", "2.0">>, type |-> "info"]

\* C27: when a frame replaces the pair, a reconciling entry, from the actual
\* version to the desired one, is appended if the new pair has a status
\* whose version differs from the desired one, and none otherwise (in sync,
\* or no status); a reconciling entry and a deployed entry are never both
\* appended.
C27_ReconcilingNoted ==
  [][\A data \in ReplacingFrames : Processes(data) =>
       /\ AppendedOf("Reconciling", data) =
            (IF data.status.present /\ data.status.appVersion # data.spec.appVersion
             THEN {[message |-> <<"Reconciling", data.status.appVersion,
                                  data.spec.appVersion>>,
                    type |-> "reconciling"]}
             ELSE {})
       /\ AppendedOf("Reconciling", data) = {} \/ AppendedOf("Deployed", data) = {}]_vars

\* An init frame brought a pair out of sync and its reconciling entry is the
\* head of the log; another frame replaced a pair by one in sync of a new
\* desired version and appended the deployed entry and no reconciling one.
C27_Witness ==
  /\ Len(page.relayed) = 2
  /\ page.relayed[1].kind = "update"
  /\ page.relayed[1].spec = Spec("2.0") /\ page.relayed[1].status = Status("2.0")
  /\ page.relayed[2].kind = "init"
  /\ page.relayed[2].spec = Spec("2.0") /\ page.relayed[2].status = Status("1.0")
  /\ page.activityLog[1] =
       [message |-> <<"Reconciling", "1.0", "2.0">>, type |-> "reconciling"]
  /\ page.activityLog[3] = [message |-> <<"Deployed", "2.0">>, type |-> "success"]


\* The entries ws.onmessage appends for data, the newest first.
NewEntries(data) == OnMessage([page EXCEPT !.activityLog = <<>>], data).activityLog

\* The step is the open event of transport t.
Opens(t) ==
  /\ t \in DOMAIN page.sockets /\ t \in DOMAIN page'.sockets
  /\ page.sockets[t] = "CONNECTING" /\ page'.sockets[t] = "OPEN"

\* C28: the entries of a frame go to the head of the activity log in the
\* order they were appended, above everything older, and so does the entry
\* of an open event; whenever the log changes, entries were put at its head
\* and the older ones follow unchanged and in order, short of those past
\* capacity.
C28_AppendAtHeadOnly ==
  /\ [][\A data \in Frames : Processes(data) =>
           LET new == NewEntries(data)
           IN  /\ Kept(Len(new))
               /\ \A i \in 1..Len(new) : page'.activityLog[i] = new[i]]_vars
  /\ [][\A t \in DOMAIN page.sockets : Opens(t) =>
           /\ Kept(1)
           /\ page'.activityLog[1] =
                [message |-> <<"Connected to reconciler">>, type |-> "success"]]_vars
  /\ [][page'.activityLog # page.activityLog => \E k \in 1..3 : Kept(k)]_vars

\* A full log that reads, newest first: reconnected, disconnected, and below
\* them the entries of an update received before the disconnect.
C28_Witness ==
  /\ Len(page.activityLog) = LogCapacity
  /\ page.activityLog[1].message = <<"Connected to reconciler">>
  /\ page.activityLog[2].message = <<"Disconnected from reconciler">>
  /\ page.activityLog[3].message[1] \in {"Reconciling", "Desired version", "State updated"}
  /\ page.relayed # <<>>


\* An entry that updateDevice or the message handler writes about a device.
DeviceEntry(e) ==
  e.message[1] \in {"State updated", "Desired version", "Deployed", "Reconciling"}

\* The step is the load of a document: loadDevice applies the snapshot.
Loads == ~page.loaded /\ page'.loaded

CurrentOpen(p) == p.ws # 0 /\ p.sockets[p.ws] = "OPEN"

\* The transport the controller holds has opened and its close event is
\* still to come: it is open, or in its closing handshake.
CurrentOpened(p) == p.ws # 0 /\ p.sockets[p.ws] \in {"OPEN", "CLOSING"}

\* C30: in every state of a loaded page the connection indicator shows
\* connected exactly when the transport the controller holds is open: it
\* shows connected whenever that transport is open, and it shows connected
\* only while that transport has opened and has not yet delivered its close
\* event.
C30_IndicatorTracksTransport ==
  page.loaded =>
    /\ CurrentOpen(page) => page.connected
    /\ page.connected => CurrentOpened(page)


(***************************************************************************)
(* Properties of the sends and pings of the proxy.                         *)
(***************************************************************************)
\* The endpoints of the session whose readyState is OPEN.
OpenEndpoints(b) ==
  (IF b.reconcilerWs = "OPEN" THEN {"reconciler"} ELSE {})
  \cup (IF b.clientWs = "OPEN" THEN {"client"} ELSE {})

\* C31: the proxy sends and pings on open endpoints only.  A step that sends
\* to the browser finds the browser's connection open and a step that sends
\* upstream finds the upstream connection open; a firing of the keepalive
\* timer pings exactly the endpoints that are open when it fires and does
\* nothing else; a frame that arrives while its target is not open is
\* recorded as received and changes nothing else: nothing is sent, no
\* connection is closed and the timer is left alone.
C31_OnlyOpenEndpointsUsed ==
  [][\A s \in Sessions :
       LET b == bridge[s]
           c == bridge'[s]
       IN  /\ c.clientOut # b.clientOut => b.clientWs = "OPEN"
           /\ c.reconcilerOut # b.reconcilerOut => b.reconcilerWs = "OPEN"
           /\ PingIntervalFires(s) => c = [b EXCEPT !.lastPing = OpenEndpoints(b)]
           /\ (c.clientIn # b.clientIn /\ b.reconcilerWs # "OPEN") =>
                c = [b EXCEPT !.clientIn = c.clientIn]
           /\ (c.reconcilerIn # b.reconcilerIn /\ b.clientWs # "OPEN") =>
                c = [b EXCEPT !.reconcilerIn = c.reconcilerIn]]_vars

\* The upstream connection is still connecting: the timer fired and pinged
\* the browser only, and a frame of the browser was dropped with both
\* connections left as they were.
C31_Witness ==
  \E s \in Sessions :
    /\ Registered(bridge[s])
    /\ bridge[s].clientWs = "OPEN"
    /\ bridge[s].reconcilerWs = "CONNECTING"
    /\ bridge[s].lastPing = {"client"}
    /\ bridge[s].clientIn # <<>>
    /\ bridge[s].reconcilerOut = <<>>
    /\ bridge[s].clientCloseCalls = 0
    /\ bridge[s].reconcilerCloseCalls = 0
    /\ bridge[s].pingInterval = "active"

=============================================================================
